---- MODULE Spec2Model ----
(***************************************************************************)
(* Model of the ISMCTS engine (src/src/lib.rs) driven by the TenMoveGame   *)
(* of src/src/tests.rs.  The shared search tree is a heap of nodes; each   *)
(* worker thread is a small program counter machine whose steps are the    *)
(* critical sections delimited by the RwLocks of Node.                     *)
(***************************************************************************)
EXTENDS Integers, Sequences, FiniteSets, Bags, TLC

VARIABLES
    root_state,   \* IsmctsHandler.root_state : TenMoveGame.moves
    root_node,    \* IsmctsHandler.root_node  : id of the root Node
    nodes,        \* heap: live Arc<Node> allocations, id -> Node
    workers,      \* bag of the running workers' locals (ismcts_one_iteration)
    phase,        \* "idle" | "running" | "panicked"
    budget,       \* iterations the caller may still request
    call,         \* last handler call [op, mov, ret] and the arguments
                  \* [threads, iters] of the latest run_iterations
    runs,         \* number of run_iterations calls started
    advances,     \* number of successful handler make_move calls
    select_calls  \* history: per node, the select_child calls made on its
                  \* parent that found the node among the legal children

vars == <<root_state, root_node, nodes, workers, phase, budget,
          call, runs, advances, select_calls>>

----------------------------------------------------------------------------
(* Bounds *)

NumMoves == 2        \* moves offered per turn ((0..10) in tests.rs, scaled)
MaxThreads == 2      \* largest n_threads passed to run_iterations
MaxBudget == 4       \* total iterations over all run_iterations calls

(* Program constants *)

TOTAL_TURNS == 2

----------------------------------------------------------------------------
(* Option<T>::None for moves, node references, player tags and results.   *)
(* A node is named by its position in the tree it was allocated in: the   *)
(* root of IsmctsHandler::new is <<>>, the i-th child pushed to node n is *)
(* Append(n, i); <<0>> names no node.                                     *)

NoMove == -1
NoNode == <<0>>
NoPlayer == -1
NoResult == -1

RECURSIVE SeqsUpTo(_)
SeqsUpTo(n) ==
    IF n = 0 THEN {<<>>}
    ELSE LET shorter == SeqsUpTo(n - 1)
         IN shorter \cup {Append(s, m) : s \in shorter, m \in 0..(NumMoves - 1)}

----------------------------------------------------------------------------
(* TenMoveGame *)

CurrentPlayer(s) == Len(s) % 2

AvailableMovesOneMore(s) ==
    IF Len(s) > TOTAL_TURNS + 1 THEN <<>>
    ELSE [i \in 1..NumMoves |-> i - 1]

AvailableMoves(s) ==
    IF Len(s) > TOTAL_TURNS THEN <<>>
    ELSE [i \in 1..NumMoves |-> i - 1]

MakeMove(s, m) == Append(s, m)

Result(s, player) ==
    IF Len(s) < TOTAL_TURNS THEN NoResult
    ELSE IF Len(s) = 0 THEN NoResult
    ELSE IF s[Len(s)] = player THEN 1 ELSE 0

UnwrapOrDefault(r) == IF r = NoResult THEN 0 ELSE r

Range(f) == {f[i] : i \in DOMAIN f}

(* Game::random_rollout: the set of states the loop can stop in *)
RECURSIVE RandomRollout(_)
RandomRolloutUnchecked(s) ==
    IF Result(s, CurrentPlayer(s)) # NoResult /\ AvailableMoves(s) # <<>>
    THEN {s}
    ELSE {MakeMove(s, m) : m \in 0..(NumMoves - 1)}

RandomRollout(s) ==
    IF Result(s, CurrentPlayer(s)) # NoResult THEN {s}
    ELSE IF AvailableMoves(s) = <<>> THEN {s}
    ELSE UNION {RandomRollout(MakeMove(s, m)) : m \in Range(AvailableMoves(s))}

----------------------------------------------------------------------------
(* NodeStatistics::ucb1, keyed as OrderedFloat orders it.                  *)
(* The score R/N + sqrt(2 ln(A) / N) is computed in fixed point (7         *)
(* decimals, rounded to 5e-6); for N <= 12 and A <= 13 the keys order and  *)
(* tie exactly like the f64 scores.  A NaN score (N = 0 gives 0/0, A = 0   *)
(* gives sqrt(-inf)) is ordered above every number and equal to itself.    *)

SqrtTwoLn ==   \* round(1e7 * sqrt(2 ln A)), A = 1..13
    <<0, 11774100, 14823038, 16651092, 17941226, 18930185, 19727697,
      20393340, 20962941, 21459660, 21899293, 22293078, 22649280>>

InvSqrt ==     \* round(1e7 / sqrt N), N = 1..12
    <<10000000, 7071068, 5773503, 5000000, 4472136, 4082483, 3779645,
      3535534, 3333333, 3162278, 3015113, 2886751>>

MulFix(a, b) ==   \* a * b / 1e7 without leaving 32 bits
    LET a1 == a \div 10000   a0 == a % 10000
        b1 == b \div 10000   b0 == b % 10000
    IN a1 * b1 * 10 + (a1 * b0 + a0 * b1) \div 1000 + (a0 * b0) \div 10000000

NaNKey == 1000000000

Ucb1(st) ==
    IF st.visit_count = 0 \/ st.availability_count = 0 THEN NaNKey
    ELSE ((st.reward * 10000000) \div st.visit_count
          + MulFix(SqrtTwoLn[st.availability_count], InvSqrt[st.visit_count])
          + 25) \div 50

----------------------------------------------------------------------------
(* Node *)

NewNodeUnavailable(mov, parent, tag, avail) ==
    [mov |-> mov, parent |-> parent, children |-> <<>>,
     player_just_moved |-> tag,
     visit_count |-> 0, availability_count |-> 0, reward |-> 0]

(* Node literal of IsmctsHandler::new and of add_child *)
NewNode(mov, parent, tag, avail) ==
    [mov |-> mov, parent |-> parent, children |-> <<>>,
     player_just_moved |-> tag,
     visit_count |-> 0, availability_count |-> avail, reward |-> 0]

UpgradeNever(heap, p) == NoNode

(* Weak::upgrade: the parent is reachable only while it is still allocated *)
Upgrade(heap, p) == IF p # NoNode /\ p \in DOMAIN heap THEN p ELSE NoNode

(* Node::untried_moves *)
UntriedMoves(heap, n, legal_moves) ==
    LET Untried(m) == ~(\E c \in Range(heap[n].children) : heap[c].mov = m)
    IN SelectSeq(legal_moves, Untried)

LegalChildrenInverted(heap, n, legal_moves) ==
    LET Legal(c) == ~(\E m \in Range(legal_moves) : heap[c].mov = m)
    IN SelectSeq(heap[n].children, Legal)

(* Node::select_child, first statement: the legal children *)
LegalChildren(heap, n, legal_moves) ==
    LET Legal(c) == \E m \in Range(legal_moves) : heap[c].mov = m
    IN SelectSeq(heap[n].children, Legal)

MaxByKeyStepFirst(best, best_key, c, key) ==
    IF best = NoNode \/ key > best_key THEN <<c, key>> ELSE <<best, best_key>>

MaxByKeyStepMin(best, best_key, c, key) ==
    IF best = NoNode \/ key <= best_key THEN <<c, key>> ELSE <<best, best_key>>

(* Iterator::max_by_key: a later element replaces the maximum on >= *)
MaxByKeyStep(best, best_key, c, key) ==
    IF best = NoNode \/ key >= best_key THEN <<c, key>> ELSE <<best, best_key>>

MaxByKey(cs, keys) ==
    LET F[i \in 0..Len(cs)] ==
            IF i = 0 THEN <<NoNode, 0>>
            ELSE MaxByKeyStep(F[i - 1][1], F[i - 1][2], cs[i], keys[i])
    IN F[Len(cs)][1]

(* find(|c| c.mov == Some(mov)) over the children of n *)
FindChild(heap, n, mov) ==
    LET hits == SelectSeq(heap[n].children, LAMBDA c : heap[c].mov = mov)
    IN IF hits = <<>> THEN NoNode ELSE hits[1]

(* Arc::new in add_child: the name of the next child pushed to n *)
NewId(heap, n) == Append(n, Len(heap[n].children) + 1)

AddChildNoPush(heap, n, id, mov, tag) ==
    LET existing == FindChild(heap, n, mov)
    IN IF existing # NoNode
       THEN [heap |-> heap, child |-> existing]
       ELSE [heap |-> heap @@ (id :> NewNode(mov, n, tag, 1)), child |-> id]

AddChildNoRecheck(heap, n, id, mov, tag) ==
    [heap |-> [heap EXCEPT ![n].children = Append(@, id)]
                @@ (id :> NewNode(mov, n, tag, 1)),
     child |-> id]

AddChildCountExisting(heap, n, id, mov, tag) ==
    LET existing == FindChild(heap, n, mov)
    IN IF existing # NoNode
       THEN [heap |-> [heap EXCEPT ![existing].availability_count = @ + 1],
             child |-> existing]
       ELSE [heap |-> [heap EXCEPT ![n].children = Append(@, id)]
                        @@ (id :> NewNode(mov, n, tag, 1)),
             child |-> id]

(* Node::add_child: the heap after the call and the child returned *)
AddChild(heap, n, id, mov, tag) ==
    LET existing == FindChild(heap, n, mov)
    IN IF existing # NoNode
       THEN [heap |-> heap, child |-> existing]
       ELSE [heap |-> [heap EXCEPT ![n].children = Append(@, id)]
                        @@ (id :> NewNode(mov, n, tag, 1)),
             child |-> id]

UpdateSkipRoot(heap, n, terminal_state) ==
    IF heap[n].player_just_moved = NoPlayer THEN heap
    ELSE [heap EXCEPT
            ![n].visit_count = @ + 1,
            ![n].reward = @ + UnwrapOrDefault(
                                Result(terminal_state, heap[n].player_just_moved))]

UpdateNeutralCredit(heap, n, terminal_state) ==
    [heap EXCEPT ![n].visit_count = @ + 1]

UpdateRewardOnly(heap, n, terminal_state) ==
    [heap EXCEPT
        ![n].reward = IF heap[n].player_just_moved # NoPlayer
                      THEN @ + UnwrapOrDefault(
                                 Result(terminal_state, heap[n].player_just_moved))
                      ELSE @]

(* Node::update *)
Update(heap, n, terminal_state) ==
    [heap EXCEPT
        ![n].visit_count = @ + 1,
        ![n].reward = IF heap[n].player_just_moved # NoPlayer
                      THEN @ + UnwrapOrDefault(
                                 Result(terminal_state, heap[n].player_just_moved))
                      ELSE @]

(* Nodes owned (through children) by n, n included *)
RECURSIVE Subtree(_, _)
Subtree(heap, n) ==
    {n} \cup UNION {Subtree(heap, c) : c \in Range(heap[n].children)}

----------------------------------------------------------------------------
(* IsmctsHandler::new *)

NoCall == [op |-> "new", mov |-> NoMove, threads |-> 0, iters |-> 0,
           ret |-> NoMove]

RootId == <<>>

IdleWorker ==
    [pc |-> "idle", state |-> <<>>, node |-> NoNode,
     available_moves |-> <<>>, untried_moves |-> <<>>,
     legal_children |-> <<>>, idx |-> 0,
     choice |-> NoNode, choice_key |-> 0, iters |-> 0,
     keys |-> <<>>]   \* history: the keys max_by_key has read in this call

Init ==
    /\ root_state \in SeqsUpTo(TOTAL_TURNS + 1)
    /\ root_node = RootId
    /\ nodes = (RootId :> NewNode(NoMove, NoNode, NoPlayer, 0))
    /\ workers = EmptyBag
    /\ phase = "idle"
    /\ budget = MaxBudget
    /\ call = NoCall
    /\ runs = 0
    /\ advances = 0
    /\ select_calls = (RootId :> 0)

----------------------------------------------------------------------------
(* IsmctsHandler::run_iterations: spawn_n_threads and the scope's join *)

(* ismcts_work_thread_iterations: entry of one loop round *)
StartIteration(n_left) ==
    [IdleWorker EXCEPT !.pc = "select", !.state = root_state,
                       !.node = root_node, !.iters = n_left]

RunIterations(n_threads, n_iterations_per_thread) ==
    /\ phase = "idle"
    /\ n_threads * n_iterations_per_thread <= budget
    /\ budget' = budget - n_threads * n_iterations_per_thread
    /\ workers' = (StartIteration(n_iterations_per_thread) :> n_threads)
    /\ phase' = "running"
    /\ call' = [op |-> "run_iterations", mov |-> NoMove,
                threads |-> n_threads, iters |-> n_iterations_per_thread,
                ret |-> NoMove]
    /\ runs' = runs + 1
    /\ UNCHANGED <<root_state, root_node, nodes, advances, select_calls>>

(* thread::scope(..).unwrap(): returns when every worker has finished,    *)
(* and panics itself when one of them panicked                            *)
Join ==
    /\ phase = "running"
    /\ \A me \in BagToSet(workers) : me.pc \in {"done", "panic"}
    /\ phase' = IF \E me \in BagToSet(workers) : me.pc = "panic"
                THEN "panicked" ELSE "idle"
    /\ workers' = EmptyBag
    /\ UNCHANGED <<root_state, root_node, nodes, budget, call, runs, advances,
                   select_calls>>

----------------------------------------------------------------------------
(* ismcts_one_iteration, one action per critical section.  The workers    *)
(* run the same closure and are told apart by nothing but their locals:   *)
(* a step takes one worker's locals out of the bag and puts the new ones  *)
(* back.                                                                  *)

HandlerFrame == <<root_state, root_node, phase, budget, call, runs, advances>>

(* The history kept for the nodes of heap: a new node starts at 0, a      *)
(* dropped node is forgotten                                              *)
Kept(heap) ==
    [n \in DOMAIN heap |->
        IF n \in DOMAIN select_calls THEN select_calls[n] ELSE 0]

Running(me, pc) ==
    phase = "running" /\ BagIn(me, workers) /\ me.pc = pc

Step(me, after) == (workers (-) SetToBag({me})) (+) SetToBag({after})

(* Select loop head: available_moves, untried_moves and the break test;   *)
(* on a state without moves nothing is expanded and the rollout follows   *)
Select(me) ==
    LET available_moves == AvailableMoves(me.state)
        untried_moves == UntriedMoves(nodes, me.node, available_moves)
    IN /\ Running(me, "select")
       /\ IF available_moves = <<>>
          THEN \E terminal \in RandomRollout(me.state) :
                 workers' = Step(me, [me EXCEPT !.state = terminal,
                                                !.pc = "backprop"])
          ELSE workers' = Step(me,
                 [me EXCEPT !.available_moves = available_moves,
                            !.untried_moves = untried_moves,
                            !.pc = IF untried_moves # <<>>
                                   THEN "expand" ELSE "select_child"])
       /\ UNCHANGED <<nodes, select_calls>>
       /\ UNCHANGED HandlerFrame

HoldsChildrenReadAfterReturn(me, n) ==
    \/ me.pc \in {"score", "bump"} /\ me.node = n
    \/ me.pc = "select" /\ me.node \in DOMAIN nodes
                        /\ nodes[me.node].parent = n

HoldsChildrenReadUntilWrite(me, n) ==
    me.pc \in {"score", "bump", "expand"} /\ me.node = n

(* The children read lock of node n is held from SelectChild to the last  *)
(* Bump of the same select_child call                                     *)
HoldsChildrenRead(me, n) == me.pc \in {"score", "bump"} /\ me.node = n

(* One max_by_key step of select_child on the idx-th legal child: read    *)
(* its statistics (read lock) and keep the better of it and the choice    *)
Scored(me, legal_children, idx) ==
    LET c == legal_children[idx]
        best == MaxByKeyStep(me.choice, me.choice_key, c, Ucb1(nodes[c]))
        last == idx = Len(legal_children)
    IN [me EXCEPT !.legal_children = legal_children,
                  !.choice = best[1], !.choice_key = best[2],
                  !.keys = Append(me.keys, Ucb1(nodes[c])),
                  !.idx = IF last THEN 1 ELSE idx + 1,
                  !.pc = IF last THEN "bump" ELSE "score"]

(* select_child: take the children read lock, collect the legal children  *)
(* and score the first; with no legal child the result is None and the    *)
(* caller's unwrap panics                                                 *)
SelectChild(me) ==
    LET legal_children == LegalChildren(nodes, me.node, me.available_moves)
    IN /\ Running(me, "select_child")
       /\ workers' = Step(me,
            IF legal_children = <<>>
            THEN [me EXCEPT !.pc = "panic"]
            ELSE Scored(me, legal_children, 1))
       /\ select_calls' = [c \in DOMAIN select_calls |->
                             IF c \in Range(legal_children)
                             THEN select_calls[c] + 1 ELSE select_calls[c]]
       /\ UNCHANGED nodes
       /\ UNCHANGED HandlerFrame

(* select_child: max_by_key reads the next child's statistics *)
Score(me) ==
    /\ Running(me, "score")
    /\ workers' = Step(me, Scored(me, me.legal_children, me.idx))
    /\ UNCHANGED <<nodes, select_calls>>
    /\ UNCHANGED HandlerFrame

BumpNever(me) ==
    LET last == me.idx = Len(me.legal_children)
    IN /\ Running(me, "bump")
       /\ workers' = Step(me,
            IF last
            THEN [me EXCEPT !.node = me.choice,
                            !.state = MakeMove(me.state, nodes[me.choice].mov),
                            !.legal_children = <<>>, !.idx = 0,
                            !.choice = NoNode, !.choice_key = 0,
                            !.available_moves = <<>>, !.keys = <<>>,
                            !.pc = "select"]
            ELSE [me EXCEPT !.idx = me.idx + 1, !.keys = <<>>])
       /\ UNCHANGED <<nodes, select_calls>>
       /\ UNCHANGED HandlerFrame

BumpChosenOnly(me) ==
    LET c == me.legal_children[me.idx]
        last == me.idx = Len(me.legal_children)
    IN /\ Running(me, "bump")
       /\ nodes' = IF c = me.choice
                   THEN [nodes EXCEPT ![c].availability_count = @ + 1]
                   ELSE nodes
       /\ workers' = Step(me,
            IF last
            THEN [me EXCEPT !.node = me.choice,
                            !.state = MakeMove(me.state, nodes[me.choice].mov),
                            !.legal_children = <<>>, !.idx = 0,
                            !.choice = NoNode, !.choice_key = 0,
                            !.available_moves = <<>>, !.keys = <<>>,
                            !.pc = "select"]
            ELSE [me EXCEPT !.idx = me.idx + 1, !.keys = <<>>])
       /\ UNCHANGED select_calls
       /\ UNCHANGED HandlerFrame

(* select_child: availability_count += 1 on one legal child (write lock); *)
(* after the last one the call returns and the loop body makes the move   *)
Bump(me) ==
    LET c == me.legal_children[me.idx]
        last == me.idx = Len(me.legal_children)
    IN /\ Running(me, "bump")
       /\ nodes' = [nodes EXCEPT ![c].availability_count = @ + 1]
       /\ workers' = Step(me,
            IF last
            THEN [me EXCEPT !.node = me.choice,
                            !.state = MakeMove(me.state, nodes[me.choice].mov),
                            !.legal_children = <<>>, !.idx = 0,
                            !.choice = NoNode, !.choice_key = 0,
                            !.available_moves = <<>>, !.keys = <<>>,
                            !.pc = "select"]
            ELSE [me EXCEPT !.idx = me.idx + 1, !.keys = <<>>])
       /\ UNCHANGED select_calls
       /\ UNCHANGED HandlerFrame

ExpandAndDescend(me) ==
    /\ Running(me, "expand")
    /\ \A other \in BagToSet(workers) : ~HoldsChildrenRead(other, me.node)
    /\ \E m \in Range(me.untried_moves) :
         LET player_tag == CurrentPlayer(me.state)
             added == AddChild(nodes, me.node, NewId(nodes, me.node), m,
                               player_tag)
         IN /\ nodes' = added.heap
            /\ select_calls' = Kept(added.heap)
            /\ workers' = Step(me, [me EXCEPT !.state = MakeMove(me.state, m),
                                              !.node = added.child,
                                              !.available_moves = <<>>,
                                              !.untried_moves = <<>>,
                                              !.pc = "select"])
    /\ UNCHANGED HandlerFrame

(* Expand (add_child under the children write lock) and Simulate *)
Expand(me) ==
    /\ Running(me, "expand")
    /\ \A other \in BagToSet(workers) : ~HoldsChildrenRead(other, me.node)
    /\ \E m \in Range(me.untried_moves) :
         LET player_tag == CurrentPlayer(me.state)
             added == AddChild(nodes, me.node, NewId(nodes, me.node), m,
                               player_tag)
         IN /\ nodes' = added.heap
            /\ select_calls' = Kept(added.heap)
            /\ \E terminal \in RandomRollout(MakeMove(me.state, m)) :
                 workers' = Step(me, [me EXCEPT !.state = terminal,
                                                !.node = added.child,
                                                !.available_moves = <<>>,
                                                !.untried_moves = <<>>,
                                                !.pc = "backprop"])
    /\ UNCHANGED HandlerFrame

BackpropLeafOnly(me) ==
    /\ Running(me, "backprop")
    /\ nodes' = Update(nodes, me.node, me.state)
    /\ workers' = Step(me,
         IF me.iters > 1
         THEN StartIteration(me.iters - 1)
         ELSE [IdleWorker EXCEPT !.pc = "done"])
    /\ UNCHANGED select_calls
    /\ UNCHANGED HandlerFrame

(* Backprop: update one node, then step to its parent or end the          *)
(* iteration (and start the worker's next one)                            *)
Backprop(me) ==
    LET parent == Upgrade(nodes, nodes[me.node].parent)
    IN /\ Running(me, "backprop")
       /\ nodes' = Update(nodes, me.node, me.state)
       /\ workers' = Step(me,
            IF parent # NoNode
            THEN [me EXCEPT !.node = parent]
            ELSE IF me.iters > 1
                 THEN StartIteration(me.iters - 1)
                 ELSE [IdleWorker EXCEPT !.pc = "done"])
       /\ UNCHANGED select_calls
       /\ UNCHANGED HandlerFrame

----------------------------------------------------------------------------
(* IsmctsHandler::make_move and IsmctsHandler::best_move *)

HandlerMakeMoveEager(mov) ==
    LET legal == \E m \in Range(AvailableMoves(root_state)) : m = mov
        child_node == FindChild(nodes, root_node, mov)
    IN /\ phase = "idle"
       /\ call' = [call EXCEPT !.op = "make_move", !.mov = mov,
                                 !.ret = NoMove]
       /\ IF ~legal
          THEN /\ phase' = "panicked"
               /\ UNCHANGED <<root_state, root_node, nodes, advances,
                               select_calls>>
          ELSE IF child_node = NoNode
          THEN /\ phase' = "panicked"
               /\ root_state' = MakeMove(root_state, mov)
               /\ UNCHANGED <<root_node, nodes, advances, select_calls>>
          ELSE /\ root_state' = MakeMove(root_state, mov)
               /\ root_node' = child_node
               /\ nodes' = [n \in Subtree(nodes, child_node) |-> nodes[n]]
               /\ advances' = advances + 1
               /\ select_calls' = Kept(nodes')
               /\ UNCHANGED phase
       /\ UNCHANGED <<workers, budget, runs>>

HandlerMakeMoveFirstChild(mov) ==
    LET legal == \E m \in Range(AvailableMoves(root_state)) : m = mov
        child_node == FindChild(nodes, root_node, mov)
    IN /\ phase = "idle"
       /\ call' = [call EXCEPT !.op = "make_move", !.mov = mov,
                                 !.ret = NoMove]
       /\ IF ~legal \/ child_node = NoNode
          THEN /\ phase' = "panicked"
               /\ UNCHANGED <<root_state, root_node, nodes, advances,
                               select_calls>>
          ELSE /\ root_state' = MakeMove(root_state, mov)
               /\ root_node' = nodes[root_node].children[1]
               /\ nodes' = [n \in Subtree(nodes, nodes[root_node].children[1])
                              |-> nodes[n]]
               /\ advances' = advances + 1
               /\ select_calls' = Kept(nodes')
               /\ UNCHANGED phase
       /\ UNCHANGED <<workers, budget, runs>>

HandlerMakeMoveKeepParent(mov) ==
    LET legal == \E m \in Range(AvailableMoves(root_state)) : m = mov
        child_node == FindChild(nodes, root_node, mov)
    IN /\ phase = "idle"
       /\ call' = [call EXCEPT !.op = "make_move", !.mov = mov,
                                 !.ret = NoMove]
       /\ IF ~legal \/ child_node = NoNode
          THEN /\ phase' = "panicked"
               /\ UNCHANGED <<root_state, root_node, nodes, advances,
                               select_calls>>
          ELSE /\ root_state' = MakeMove(root_state, mov)
               /\ root_node' = child_node
               /\ nodes' = nodes
               /\ advances' = advances + 1
               /\ select_calls' = Kept(nodes')
               /\ UNCHANGED phase
       /\ UNCHANGED <<workers, budget, runs>>

(* The assertions come first; the assignment of root_node drops the old   *)
(* root and, with it, every subtree but the child's                       *)
HandlerMakeMove(mov) ==
    LET legal == \E m \in Range(AvailableMoves(root_state)) : m = mov
        child_node == FindChild(nodes, root_node, mov)
    IN /\ phase = "idle"
       /\ call' = [call EXCEPT !.op = "make_move", !.mov = mov,
                                 !.ret = NoMove]
       /\ IF ~legal \/ child_node = NoNode
          THEN /\ phase' = "panicked"
               /\ UNCHANGED <<root_state, root_node, nodes, advances,
                               select_calls>>
          ELSE /\ root_state' = MakeMove(root_state, mov)
               /\ root_node' = child_node
               /\ nodes' = [n \in Subtree(nodes, child_node) |-> nodes[n]]
               /\ advances' = advances + 1
               /\ select_calls' = Kept(nodes')
               /\ UNCHANGED phase
       /\ UNCHANGED <<workers, budget, runs>>

BestMove(heap, root) ==
    LET children == heap[root].children
        best == MaxByKey(children,
                         [i \in 1..Len(children) |-> heap[children[i]].visit_count])
    IN IF best = NoNode THEN NoMove ELSE heap[best].mov

HandlerBestMove ==
    /\ phase = "idle"
    /\ call.op # "best_move"
    /\ call' = [call EXCEPT !.op = "best_move", !.mov = NoMove,
                              !.ret = BestMove(nodes, root_node)]
    /\ UNCHANGED <<root_state, root_node, nodes, workers, phase, budget,
                   runs, advances, select_calls>>

----------------------------------------------------------------------------

Next ==
    \/ \E t \in 1..MaxThreads, k \in 1..MaxBudget : RunIterations(t, k)
    \/ Join
    \/ \E me \in BagToSet(workers) : Select(me)
    \/ \E me \in BagToSet(workers) : SelectChild(me)
    \/ \E me \in BagToSet(workers) : Score(me)
    \/ \E me \in BagToSet(workers) : Bump(me)
    \/ \E me \in BagToSet(workers) : Expand(me)
    \/ \E me \in BagToSet(workers) : Backprop(me)
    \/ \E m \in 0..NumMoves : HandlerMakeMove(m)
    \/ HandlerBestMove

Spec == Init /\ [][Next]_vars

TypeOK ==
    /\ phase \in {"idle", "running", "panicked"}
    /\ root_node \in DOMAIN nodes
    /\ budget \in 0..MaxBudget
    /\ IsABag(workers)
    /\ BagCardinality(workers) <= MaxThreads
    /\ DOMAIN select_calls = DOMAIN nodes

----------------------------------------------------------------------------
(* Helpers of the properties *)

Children(n) == nodes[n].children

RECURSIVE SumVisits(_)
SumVisits(cs) ==
    IF cs = <<>> THEN 0
    ELSE nodes[Head(cs)].visit_count + SumVisits(Tail(cs))

RootMoveCount == Len(AvailableMoves(root_state))

(* run_iterations has returned on a handler that saw exactly one run and  *)
(* no advance since construction                                          *)
AfterFirstRun == phase = "idle" /\ runs = 1 /\ advances = 0

----------------------------------------------------------------------------
(* C1 - Visit conservation: when run_iterations(T, K) returns on a fresh   *)
(* handler whose root state has a legal move, the visit counts of the      *)
(* root's children sum to T * K, whatever the interleaving of the workers. *)
VisitConservation ==
    (AfterFirstRun /\ RootMoveCount >= 1)
        => SumVisits(Children(root_node)) = call.threads * call.iters

VisitConservationWitness ==
    /\ AfterFirstRun
    /\ RootMoveCount >= 1
    /\ call.threads = 2
    /\ call.iters = 2
    /\ SumVisits(Children(root_node)) = 4

(* C2 as stated - Root child coverage: with M legal root moves and         *)
(* T * K >= M the root has exactly M children after the run.               *)
RootChildCoverageAsStated ==
    (AfterFirstRun /\ call.threads * call.iters >= RootMoveCount)
        => Len(Children(root_node)) = RootMoveCount

(* C2 amended - with M legal root moves and K >= M (every worker alone     *)
(* runs at least M iterations) the root has exactly M children after the   *)
(* run, for every thread count and interleaving.                           *)
RootChildCoverage ==
    (AfterFirstRun /\ call.iters >= RootMoveCount)
        => Len(Children(root_node)) = RootMoveCount

RootChildCoverageWitness ==
    /\ AfterFirstRun
    /\ call.threads = 2
    /\ call.iters = RootMoveCount
    /\ RootMoveCount >= 2
    /\ Len(Children(root_node)) = RootMoveCount

(* C3 - Availability dominates visits: every non-root node has             *)
(* availability_count >= visit_count in every reachable state.             *)
AvailabilityDominatesVisits ==
    \A n \in DOMAIN nodes \ {root_node} :
        nodes[n].availability_count >= nodes[n].visit_count

(* C4 - Children uniqueness: the entering moves of the children of any     *)
(* node are pairwise distinct in every reachable state.                    *)
ChildrenUnique ==
    \A n \in DOMAIN nodes :
        \A i, j \in 1..Len(Children(n)) :
            i # j => nodes[Children(n)[i]].mov # nodes[Children(n)[j]].mov

(* two workers expanded the same move of the fresh root at the same time:  *)
(* both stand on the one new child before either has updated it            *)
ChildrenUniqueWitness ==
    \E me \in BagToSet(workers) :
        /\ me.pc = "backprop"
        /\ CopiesIn(me, workers) = 2
        /\ me.node # root_node
        /\ nodes[me.node].parent = root_node
        /\ nodes[me.node].visit_count = 0
        /\ root_state = <<>>
        /\ advances = 0

----------------------------------------------------------------------------
(* C5 as stated - best_move returns the entering move of the most visited  *)
(* root child, the first such child in child order on a tie, and is absent *)
(* exactly when the root has no children.                                  *)
BestMoveFirstOfTies ==
    call.op = "best_move" =>
        LET cs == Children(root_node)
        IN IF cs = <<>> THEN call.ret = NoMove
           ELSE \E i \in 1..Len(cs) :
                  /\ call.ret = nodes[cs[i]].mov
                  /\ call.ret # NoMove
                  /\ \A j \in 1..Len(cs) :
                        nodes[cs[j]].visit_count <= nodes[cs[i]].visit_count
                  /\ \A j \in 1..(i - 1) :
                        nodes[cs[j]].visit_count < nodes[cs[i]].visit_count

(* C5 amended - best_move returns the entering move of the most visited    *)
(* root child, the last such child in child order on a tie, and is absent  *)
(* exactly when the root has no children.                                  *)
BestMoveLastOfTies ==
    call.op = "best_move" =>
        LET cs == Children(root_node)
        IN IF cs = <<>> THEN call.ret = NoMove
           ELSE \E i \in 1..Len(cs) :
                  /\ call.ret = nodes[cs[i]].mov
                  /\ call.ret # NoMove
                  /\ \A j \in 1..Len(cs) :
                        nodes[cs[j]].visit_count <= nodes[cs[i]].visit_count
                  /\ \A j \in (i + 1)..Len(cs) :
                        nodes[cs[j]].visit_count < nodes[cs[i]].visit_count

BestMoveLastOfTiesWitness ==
    /\ call.op = "best_move"
    /\ Len(Children(root_node)) = 2
    /\ nodes[Children(root_node)[1]].visit_count
         = nodes[Children(root_node)[2]].visit_count
    /\ call.ret = nodes[Children(root_node)[2]].mov

----------------------------------------------------------------------------
(* A step of the handler's make_move(m): the only steps taken from an idle *)
(* handler that leave "make_move" as the last call                         *)
MakeMoveStep(m) ==
    phase = "idle" /\ call'.op = "make_move" /\ call'.mov = m

LegalAtRoot(m) == \E i \in 1..RootMoveCount : AvailableMoves(root_state)[i] = m

ExploredAtRoot(m) == \E c \in Range(Children(root_node)) : nodes[c].mov = m

(* C6 - Illegal advance: make_move(m) with m not legal in the root state,  *)
(* or not the entering move of a root child, panics and leaves the root    *)
(* state, the root node and the tree as they were.                         *)
IllegalAdvancePanics ==
    [][\A m \in 0..NumMoves :
         (MakeMoveStep(m) /\ (~LegalAtRoot(m) \/ ~ExploredAtRoot(m)))
            => /\ phase' = "panicked"
               /\ root_state' = root_state
               /\ root_node' = root_node
               /\ nodes' = nodes]_vars

IllegalAdvancePanicsWitness ==
    /\ phase = "panicked"
    /\ call.op = "make_move"
    /\ LegalAtRoot(call.mov)
    /\ ~ExploredAtRoot(call.mov)
    /\ Children(root_node) # <<>>

----------------------------------------------------------------------------
(* Nodes that can be reached from n through children and live parents *)
RECURSIVE Top(_, _)
Top(heap, n) ==
    IF Upgrade(heap, heap[n].parent) = NoNode THEN n
    ELSE Top(heap, heap[n].parent)

Reachable(heap, n) == Subtree(heap, Top(heap, n))

(* C7 - Root advance: make_move(m) for a legal, explored m makes the root  *)
(* child entered by m the new root, with its subtree and statistics as     *)
(* they were, applies m to the root state, and leaves no former sibling    *)
(* reachable from the new root.                                            *)
RootAdvance ==
    [][\A m \in 0..NumMoves :
         (MakeMoveStep(m) /\ LegalAtRoot(m) /\ ExploredAtRoot(m))
            => /\ root_node' \in Range(Children(root_node))
               /\ nodes[root_node'].mov = m
               /\ \A n \in Subtree(nodes, root_node') :
                     n \in DOMAIN nodes' /\ nodes'[n] = nodes[n]
               /\ root_state' = Append(root_state, m)
               /\ phase' = "idle"
               /\ \A sib \in Range(Children(root_node)) \ {root_node'} :
                     Subtree(nodes, sib) \cap Reachable(nodes', root_node') = {}]_vars

(* an advance after run_iterations(1, K) that kept a subtree and dropped a *)
(* sibling                                                                 *)
RootAdvanceWitness ==
    /\ call.op = "make_move"
    /\ phase = "idle"
    /\ advances = 1
    /\ runs = 1
    /\ call.threads = 1
    /\ call.iters >= 3
    /\ Children(root_node) # <<>>
    /\ nodes[root_node].visit_count >= 2
    /\ root_node = <<2>>

----------------------------------------------------------------------------
(* C8 - Terminal at root: on a handler constructed with a state that has   *)
(* no available moves, run_iterations never panics and never adds a node,  *)
(* and best_move is absent.                                                *)
TerminalAtRoot ==
    (Len(root_state) > TOTAL_TURNS /\ advances = 0) =>
        /\ DOMAIN nodes = {root_node}
        /\ Children(root_node) = <<>>
        /\ \A me \in BagToSet(workers) : me.pc # "panic"
        /\ phase = "panicked" => call.op = "make_move"
        /\ BestMove(nodes, root_node) = NoMove
        /\ call.op = "best_move" => call.ret = NoMove

TerminalAtRootWitness ==
    /\ Len(root_state) > TOTAL_TURNS
    /\ advances = 0
    /\ call.op = "best_move"
    /\ call.threads = 2
    /\ call.iters = 2
    /\ nodes[root_node].visit_count = 4

----------------------------------------------------------------------------
(* C9 as stated - no iteration changes the visit_count, availability_count *)
(* or reward of the current root node.                                     *)
RootStatisticsNeverUpdated ==
    [][root_node' = root_node =>
         /\ nodes'[root_node].visit_count = nodes[root_node].visit_count
         /\ nodes'[root_node].availability_count
              = nodes[root_node].availability_count
         /\ nodes'[root_node].reward = nodes[root_node].reward]_vars

(* a worker whose backprop_node is the root takes its step *)
BackpropAtRoot(me) ==
    /\ me.pc = "backprop"
    /\ me.node = root_node
    /\ CopiesIn(me, workers') < CopiesIn(me, workers)

(* C9 amended - no iteration changes the availability_count of the current *)
(* root; backpropagation ends on the root and updates it: every iteration  *)
(* adds exactly 1 to the root's visit_count (also with a terminal root)    *)
(* and adds to its reward only the result for the root's own               *)
(* player_just_moved, which a root made by new does not have.  On a        *)
(* handler that was never advanced the root's visit_count is the number of *)
(* iterations run so far and its reward stays 0.                           *)
RootUpdatedOncePerIteration ==
    /\ [][root_node' = root_node =>
            LET r == nodes[root_node]
                r2 == nodes'[root_node]
            IN /\ r2.availability_count = r.availability_count
               /\ IF \E me \in BagToSet(workers) : BackpropAtRoot(me)
                  THEN \E me \in BagToSet(workers) :
                         /\ BackpropAtRoot(me)
                         /\ r2.visit_count = r.visit_count + 1
                         /\ r2.reward = r.reward +
                              (IF r.player_just_moved = NoPlayer THEN 0
                               ELSE UnwrapOrDefault(
                                      Result(me.state,
                                             r.player_just_moved)))
                  ELSE /\ r2.visit_count = r.visit_count
                       /\ r2.reward = r.reward]_vars
    /\ []((phase = "idle" /\ advances = 0) =>
            /\ nodes[root_node].visit_count = MaxBudget - budget
            /\ nodes[root_node].reward = 0)

RootUpdatedOncePerIterationWitness ==
    /\ phase = "idle"
    /\ advances = 0
    /\ Len(root_state) > TOTAL_TURNS
    /\ nodes[root_node].visit_count = 3
    /\ nodes[root_node].availability_count = 0

----------------------------------------------------------------------------
(* C10 as stated - after any sequence of handler operations the current    *)
(* root carries no entering move, no parent and no player_just_moved.      *)
RootCarriesNothing ==
    /\ nodes[root_node].mov = NoMove
    /\ nodes[root_node].parent = NoNode
    /\ nodes[root_node].player_just_moved = NoPlayer

(* C10 amended - the root carries no entering move, no parent and no       *)
(* player_just_moved until make_move succeeds; after a successful          *)
(* make_move(m) the root is the advanced child and keeps its entering move *)
(* m and its player_just_moved, and its parent reference is dead (it can   *)
(* no longer be upgraded), so the root still has no reachable parent.      *)
RootCarriesNothingUntilAdvanced ==
    /\ Upgrade(nodes, nodes[root_node].parent) = NoNode
    /\ advances = 0 =>
          /\ nodes[root_node].mov = NoMove
          /\ nodes[root_node].parent = NoNode
          /\ nodes[root_node].player_just_moved = NoPlayer
    /\ advances > 0 =>
          /\ nodes[root_node].mov = root_state[Len(root_state)]
          /\ nodes[root_node].player_just_moved = (Len(root_state) - 1) % 2
          /\ nodes[root_node].parent # NoNode

RootCarriesNothingUntilAdvancedWitness ==
    /\ advances = 2
    /\ phase = "running"
    /\ nodes[root_node].visit_count >= 3
    /\ nodes[root_node].mov # NoMove

----------------------------------------------------------------------------
(* Scheduling.  Every worker is an OS thread of thread::scope: a thread   *)
(* that can take a step is eventually given the processor, a lock that is *)
(* released is eventually handed to a waiter, and the scope's join        *)
(* returns once the last worker has finished.                             *)

WorkerStep ==
    \E me \in BagToSet(workers) :
        \/ Select(me)
        \/ SelectChild(me)
        \/ Score(me)
        \/ Bump(me)
        \/ Expand(me)
        \/ Backprop(me)

(* The life of a handler that is asked to search once: construction, one  *)
(* run_iterations call, then advances and best_move queries               *)
FirstRun(n_threads, n_iterations_per_thread) ==
    runs = 0 /\ RunIterations(n_threads, n_iterations_per_thread)

FairNext ==
    \/ \E t \in 1..MaxThreads, k \in 1..MaxBudget : FirstRun(t, k)
    \/ Join
    \/ \E me \in BagToSet(workers) : Select(me)
    \/ \E me \in BagToSet(workers) : SelectChild(me)
    \/ \E me \in BagToSet(workers) : Score(me)
    \/ \E me \in BagToSet(workers) : Bump(me)
    \/ \E me \in BagToSet(workers) : Expand(me)
    \/ \E me \in BagToSet(workers) : Backprop(me)
    \/ \E m \in 0..NumMoves : HandlerMakeMove(m)
    \/ HandlerBestMove

FairSpec ==
    Init /\ [][FairNext]_vars /\ WF_vars(WorkerStep) /\ WF_vars(Join)

(* Iterations the workers in ws have not completed yet: the loop counter  *)
(* of ismcts_work_thread_iterations, 0 once the loop is left              *)
RECURSIVE IterationsLeft(_)
IterationsLeft(ws) ==
    IF ws = {} THEN 0
    ELSE LET me == CHOOSE w \in ws : TRUE
         IN CopiesIn(me, workers) * me.iters + IterationsLeft(ws \ {me})

----------------------------------------------------------------------------
(* C11 - run_iterations(T, K) returns only after each of the T workers has *)
(* completed exactly K iterations, and it always returns: up to the first *)
(* advance the iterations completed (the root's visit_count) and the      *)
(* iterations the workers still owe add up to the iterations requested so *)
(* far; the join is taken with all T workers out of their loops; and      *)
(* under fair scheduling a running call leads to a call that has returned.*)
RunIterationsReturns ==
    /\ [](advances = 0 =>
            nodes[root_node].visit_count + IterationsLeft(BagToSet(workers))
              = MaxBudget - budget)
    /\ [][(phase = "running" /\ phase' # "running") =>
            /\ BagCardinality(workers) = call.threads
            /\ \A me \in BagToSet(workers) : me.pc = "done" /\ me.iters = 0
            /\ phase' = "idle"]_vars
    /\ ((phase = "running") ~> (phase = "idle"))

(* a call with two workers of two iterations each has returned *)
RunIterationsReturnsWitness ==
    /\ phase = "idle"
    /\ call.op = "run_iterations" /\ call.threads = 2 /\ call.iters = 2
    /\ nodes[root_node].visit_count >= 4

----------------------------------------------------------------------------
(* Iterations started so far by all run_iterations calls: those requested *)
(* less those the running workers have not entered yet                    *)
RECURSIVE IterationsNotEntered(_)
IterationsNotEntered(ws) ==
    IF ws = {} THEN 0
    ELSE LET me == CHOOSE w \in ws : TRUE
         IN CopiesIn(me, workers) * (IF me.iters > 1 THEN me.iters - 1 ELSE 0)
              + IterationsNotEntered(ws \ {me})

IterationsStarted ==
    (MaxBudget - budget) - IterationsNotEntered(BagToSet(workers))

(* The worker with locals me leaves its Expand step in this transition *)
ExpandStep(me) ==
    /\ BagIn(me, workers) /\ me.pc = "expand"
    /\ CopiesIn(me, workers') < CopiesIn(me, workers)

(* C12 - Tree growth bound: the non-root nodes never outnumber the         *)
(* iterations started so far, and the tree grows only in the Expand step  *)
(* of an iteration, by exactly one node, which is a child of the node     *)
(* being expanded for a move that node had no child for; every other      *)
(* step, the rollout from a terminal state and the lost expansion race    *)
(* included, adds no node.                                                *)
TreeGrowthBound ==
    /\ [](Cardinality(DOMAIN nodes) - 1 <= IterationsStarted)
    /\ [][~(DOMAIN nodes' \subseteq DOMAIN nodes) =>
            \E me \in BagToSet(workers) :
              /\ ExpandStep(me)
              /\ \E c \in DOMAIN nodes' \ DOMAIN nodes :
                   /\ DOMAIN nodes' = DOMAIN nodes \cup {c}
                   /\ nodes'[c].parent = me.node
                   /\ FindChild(nodes, me.node, nodes'[c].mov) = NoNode]_vars

(* four iterations from the start position have returned and one of them  *)
(* lost an expansion race: three nodes were inserted                      *)
TreeGrowthBoundWitness ==
    /\ phase = "idle" /\ advances = 0 /\ root_state = <<>>
    /\ IterationsStarted = 4
    /\ Cardinality(DOMAIN nodes) - 1 = 3

----------------------------------------------------------------------------
(* The worker with locals me leaves its Expand step with the locals after: *)
(* add_child has returned after.node, and the move it was called with is  *)
(* the one the worker's state was advanced by                             *)
ExpandedTo(me, after) ==
    /\ ExpandStep(me)
    /\ BagIn(after, workers')
    /\ CopiesIn(after, workers') > CopiesIn(after, workers)

ExpandedMove(me, after) == after.state[Len(me.state) + 1]

(* C14 - add_child(m, p) on a node that already has a child with entering  *)
(* move m returns that child and changes nothing: no node is added, and   *)
(* no children list, player_just_moved or statistics of any node changes. *)
AddChildExisting ==
    [][\A me \in BagToSet(workers), after \in BagToSet(workers') :
         LET existing == FindChild(nodes, me.node, ExpandedMove(me, after))
         IN (ExpandedTo(me, after) /\ existing # NoNode) =>
               /\ after.node = existing
               /\ nodes' = nodes]_vars

(* two workers stand on the same new child of the root, none of them has  *)
(* updated it yet: one add_child made it, the other was handed it         *)
AddChildExistingWitness ==
    /\ root_state = <<>> /\ advances = 0
    /\ \E a \in BagToSet(workers) :
         /\ a.pc = "backprop"
         /\ nodes[a.node].parent = root_node
         /\ nodes[a.node].visit_count = 0
         /\ \/ CopiesIn(a, workers) >= 2
            \/ \E b \in BagToSet(workers) \ {a} :
                 b.pc = "backprop" /\ b.node = a.node

----------------------------------------------------------------------------
(* C15 - add_child(m, p) on a node with no child for m appends exactly one *)
(* child: its entering move is m, its parent is the node add_child was    *)
(* called on, its player_just_moved is p, its statistics are visit_count  *)
(* 0, availability_count 1 and reward 0, and it has no children; nothing  *)
(* else in the tree changes.  In an iteration p is the player to move in  *)
(* the state m is then applied to.                                        *)
AddChildNew ==
    [][\A me \in BagToSet(workers), after \in BagToSet(workers') :
         LET m == ExpandedMove(me, after)
             c == after.node
         IN (ExpandedTo(me, after) /\ FindChild(nodes, me.node, m) = NoNode) =>
               /\ c \notin DOMAIN nodes
               /\ DOMAIN nodes' = DOMAIN nodes \cup {c}
               /\ nodes'[c].mov = m
               /\ nodes'[c].parent = me.node
               /\ nodes'[c].player_just_moved = Len(me.state) % 2
               /\ nodes'[c].visit_count = 0
               /\ nodes'[c].availability_count = 1
               /\ nodes'[c].reward = 0
               /\ nodes'[c].children = <<>>
               /\ nodes'[me.node] =
                    [nodes[me.node] EXCEPT !.children = Append(@, c)]
               /\ \A n \in DOMAIN nodes \ {me.node} : nodes'[n] = nodes[n]]_vars

(* a worker has just added a child two plies below the start position:    *)
(* the child is tagged with player 1, who moved second                    *)
AddChildNewWitness ==
    /\ root_state = <<>> /\ advances = 0
    /\ \E me \in BagToSet(workers) :
         /\ me.pc = "backprop"
         /\ Len(me.node) = 2
         /\ nodes[me.node].visit_count = 0
         /\ nodes[me.node].availability_count = 1
         /\ nodes[me.node].player_just_moved = 1
         /\ nodes[me.node].mov = 0

----------------------------------------------------------------------------
(* Increments of c's availability_count that select_child calls in        *)
(* progress still owe: a call owes one to each of its legal children      *)
(* until its increment loop has passed the child                          *)
RECURSIVE PendingBumps(_, _)
PendingBumps(ws, c) ==
    IF ws = {} THEN 0
    ELSE LET me == CHOOSE w \in ws : TRUE
             owes == /\ me.pc \in {"score", "bump"}
                     /\ \E i \in 1..Len(me.legal_children) :
                          /\ me.legal_children[i] = c
                          /\ me.pc = "bump" => i >= me.idx
         IN (IF owes THEN CopiesIn(me, workers) ELSE 0)
              + PendingBumps(ws \ {me}, c)

(* The worker with locals me takes a step of a select_child call *)
SelectChildStep(me) ==
    /\ BagIn(me, workers) /\ me.pc \in {"select_child", "score", "bump"}
    /\ CopiesIn(me, workers') < CopiesIn(me, workers)

(* C16 - Availability accounting: a select_child(L) call on n adds exactly *)
(* 1 to the availability_count of every child of n whose move is in L and *)
(* touches nothing else (no other node, no visit_count, no reward, no     *)
(* children list), and no increment is lost: at every moment a non-root   *)
(* node's availability_count is 1 plus the select_child calls on its      *)
(* parent that found it legal, less the increments the calls in progress  *)
(* still owe it; with no worker running it is 1 plus the number of those  *)
(* calls.                                                                 *)
AvailabilityAccounting ==
    /\ [](\A c \in DOMAIN nodes :
            nodes[c].parent # NoNode =>
              nodes[c].availability_count
                = 1 + select_calls[c] - PendingBumps(BagToSet(workers), c))
    /\ [][\A me \in BagToSet(workers) :
            SelectChildStep(me) =>
              /\ DOMAIN nodes' = DOMAIN nodes
              /\ \A n \in DOMAIN nodes :
                   /\ nodes'[n].visit_count = nodes[n].visit_count
                   /\ nodes'[n].reward = nodes[n].reward
                   /\ nodes'[n].children = nodes[n].children
                   /\ nodes'[n].availability_count
                        \in {nodes[n].availability_count,
                             nodes[n].availability_count + 1}
                   /\ (nodes[n].parent # me.node
                         \/ nodes[n].mov \notin Range(me.available_moves))
                        => nodes'[n] = nodes[n]]_vars

(* the search has returned and left a node that was created and never     *)
(* chosen again (one visit) but was legal in two select_child calls on    *)
(* its parent                                                             *)
AvailabilityAccountingWitness ==
    /\ phase = "idle"
    /\ \E c \in DOMAIN nodes :
         /\ nodes[c].parent # NoNode
         /\ nodes[c].visit_count = 1
         /\ select_calls[c] = 2
         /\ nodes[c].availability_count = 3

----------------------------------------------------------------------------
(* The worker with locals me has read the score of every legal child and  *)
(* has not yet started on the availability increments                     *)
ScoringDone(me) == me.pc = "bump" /\ me.idx = 1

(* UCB1 key of the i-th legal child of the call, in the current tree *)
KeyOf(me, i) == Ucb1(nodes[me.legal_children[i]])

(* The j-th of the keys ks is the largest, and the first (the last) of    *)
(* those that are                                                         *)
FirstOfMaximal(ks, j) ==
    \A i \in 1..Len(ks) : ks[i] <= ks[j] /\ (i < j => ks[i] < ks[j])

LastOfMaximal(ks, j) ==
    \A i \in 1..Len(ks) : ks[i] <= ks[j] /\ (i > j => ks[i] < ks[j])

(* C17 as stated - select_child(L) returns a legal child whose UCB1 score  *)
(* is maximal among the legal children, the first of them in children     *)
(* order when several are maximal (checked where no other worker can      *)
(* change a score during the call: in runs with one worker).              *)
SelectChildFirstOfTies ==
    \A me \in BagToSet(workers) :
        (call.threads = 1 /\ ScoringDone(me)) =>
            \E j \in 1..Len(me.legal_children) :
                /\ me.choice = me.legal_children[j]
                /\ FirstOfMaximal([i \in 1..Len(me.legal_children) |->
                                      KeyOf(me, i)], j)

(* C17 - select_child(L) works on the children of its node whose move is   *)
(* in L, reads the score of each once, in children order, and returns the *)
(* one whose score as read is the largest, the last of them in children   *)
(* order when several are; in a run with one worker, where no score       *)
(* changes during the call, that is the last legal child of maximal UCB1  *)
(* score in the tree.                                                     *)
SelectChildLastOfTies ==
    \A me \in BagToSet(workers) :
        ScoringDone(me) =>
            /\ me.legal_children
                 = LegalChildren(nodes, me.node, me.available_moves)
            /\ Len(me.keys) = Len(me.legal_children)
            /\ \E j \in 1..Len(me.legal_children) :
                 /\ me.choice = me.legal_children[j]
                 /\ me.choice_key = me.keys[j]
                 /\ LastOfMaximal(me.keys, j)
                 /\ call.threads = 1 =>
                      LastOfMaximal([i \in 1..Len(me.legal_children) |->
                                        KeyOf(me, i)], j)

(* one worker chose between two children of equal score, and took the     *)
(* second                                                                 *)
SelectChildLastOfTiesWitness ==
    \E me \in BagToSet(workers) :
        /\ call.threads = 1 /\ ScoringDone(me)
        /\ Len(me.legal_children) = 2
        /\ KeyOf(me, 1) = KeyOf(me, 2)
        /\ me.choice = me.legal_children[2]

----------------------------------------------------------------------------
(* C18 - In the selection loop, a worker that found no untried move among  *)
(* a non-empty legal set gets a child from the select_child call that     *)
(* follows, whatever the other workers do in between: the node has a      *)
(* legal child when the call is made, and no worker ever fails the unwrap.*)
SelectChildNeverAbsent ==
    \A me \in BagToSet(workers) :
        /\ me.pc # "panic"
        /\ me.pc = "select_child" =>
             /\ me.available_moves # <<>>
             /\ LegalChildren(nodes, me.node, me.available_moves) # <<>>
        /\ me.pc \in {"score", "bump"} => me.choice # NoNode

(* a worker is about to call select_child on a node while another worker, *)
(* which saw an untried move there earlier, is about to call add_child on *)
(* the same node                                                          *)
SelectChildNeverAbsentWitness ==
    \E a \in BagToSet(workers), b \in BagToSet(workers) :
        /\ a.pc = "select_child"
        /\ b.pc = "expand"
        /\ a.node = b.node

----------------------------------------------------------------------------
(* C19 as stated - Whenever select_child computes the UCB1 score of a      *)
(* child, the child's visit_count is at least 1: no key read by a call in *)
(* progress is the NaN that ucb1 yields for visit_count = 0.              *)
NeverScoresUnvisited ==
    \A me \in BagToSet(workers) :
        \A i \in 1..Len(me.keys) : me.keys[i] # NaNKey

----------------------------------------------------------------------------
(* Some node other than the root made by new has not been updated yet *)
SomeUnvisited ==
    \E c \in DOMAIN nodes :
        nodes[c].parent # NoNode /\ nodes[c].visit_count = 0

(* C20 - visit_count = 0 holds for a non-root node only between its        *)
(* creation and the end of the iteration that created it: while a node    *)
(* has visit_count 0 the handler is inside run_iterations and a worker    *)
(* stands on the node about to update it; the update always comes; and    *)
(* whenever run_iterations has returned every non-root node has           *)
(* visit_count >= 1.                                                      *)
UnvisitedOnlyWhileCreating ==
    /\ [](\A c \in DOMAIN nodes :
            (nodes[c].parent # NoNode /\ nodes[c].visit_count = 0) =>
               /\ phase = "running"
               /\ \E me \in BagToSet(workers) :
                    me.pc = "backprop" /\ me.node = c)
    /\ [](phase # "running" =>
            \A c \in DOMAIN nodes :
              nodes[c].parent # NoNode => nodes[c].visit_count >= 1)
    /\ (SomeUnvisited ~> ~SomeUnvisited)

(* a node that its creator has not updated yet already has a child: another *)
(* worker went through it                                                 *)
UnvisitedOnlyWhileCreatingWitness ==
    \E c \in DOMAIN nodes :
        /\ nodes[c].parent # NoNode
        /\ nodes[c].visit_count = 0
        /\ nodes[c].children # <<>>

----------------------------------------------------------------------------
(* Locks.  Between two steps a worker holds no statistics lock (each is   *)
(* taken and released inside the step that reads or writes the            *)
(* statistics) and holds the children read lock of the nodes given by     *)
(* HoldsChildrenRead.                                                     *)
HeldChildrenLocks(me) == {n \in DOMAIN nodes : HoldsChildrenRead(me, n)}

(* The lock the worker's next step asks for while it holds those: the     *)
(* children lock of its node in untried_moves, select_child and           *)
(* add_child, the statistics lock of the next legal child inside          *)
(* select_child, the statistics lock of its node in update                *)
NextLock(me) ==
    IF me.pc \in {"select", "select_child", "expand"}
    THEN [kind |-> "children", node |-> me.node]
    ELSE IF me.pc \in {"score", "bump"}
    THEN [kind |-> "statistics", node |-> me.legal_children[me.idx]]
    ELSE [kind |-> "statistics", node |-> me.node]

AtWork(me) ==
    me.pc \in {"select", "select_child", "score", "bump", "expand",
               "backprop"}

(* C21 as stated - no worker asks for a lock of one node while it holds a  *)
(* lock of another node.                                                  *)
LocksNeverNestedAcrossNodes ==
    \A me \in BagToSet(workers) :
        AtWork(me) =>
            \A held \in HeldChildrenLocks(me) : NextLock(me).node = held

(* C21 - Lock discipline: a worker holds at most one lock between steps,   *)
(* the children read lock of the node it stands on, and only inside       *)
(* select_child; the one lock it asks for while holding it is the         *)
(* statistics lock of a child of that node (parent's children lock, then  *)
(* child's statistics lock); it asks for a children lock or for the       *)
(* statistics lock of update with no lock in hand, so nothing is held     *)
(* when it has descended to a child or ascends to a parent.               *)
LockDiscipline ==
    \A me \in BagToSet(workers) :
        AtWork(me) =>
            /\ Cardinality(HeldChildrenLocks(me)) <= 1
            /\ HeldChildrenLocks(me) # {} =>
                 /\ HeldChildrenLocks(me) = {me.node}
                 /\ NextLock(me).kind = "statistics"
                 /\ NextLock(me).node \in DOMAIN nodes
                 /\ nodes[NextLock(me).node].parent = me.node
            /\ (NextLock(me).kind = "children" \/ me.pc = "backprop") =>
                 HeldChildrenLocks(me) = {}

(* a worker inside select_child holds its node's children lock and asks   *)
(* for the statistics lock of a child that another worker is about to     *)
(* update                                                                 *)
LockDisciplineWitness ==
    \E me \in BagToSet(workers), other \in BagToSet(workers) :
        /\ me.pc \in {"score", "bump"}
        /\ HeldChildrenLocks(me) = {me.node}
        /\ other.pc = "backprop"
        /\ other.node = NextLock(me).node

----------------------------------------------------------------------------
(* Every move by which the state full goes beyond its first k moves was   *)
(* among the available moves of the state it was applied to               *)
MovesAvailable(full, k) ==
    \A i \in (k + 1)..Len(full) :
        full[i] \in Range(AvailableMoves(SubSeq(full, 1, i - 1)))

(* C22 - During an iteration the game's make_move(m) is called only on a   *)
(* local state whose available_moves() contains m, in selection, in       *)
(* expansion and in the rollout: whenever a step of a worker advances its *)
(* state, the new state continues the old one by available moves only    *)
(* (so never from a state without moves), whatever the other workers do.  *)
MakeMoveOnlyAvailable ==
    [][\A me \in BagToSet(workers), after \in BagToSet(workers') :
         (/\ me.pc \in {"select", "bump", "expand"}
          /\ CopiesIn(me, workers') < CopiesIn(me, workers)
          /\ CopiesIn(after, workers') > CopiesIn(after, workers)) =>
            /\ Len(after.state) >= Len(me.state)
            /\ SubSeq(after.state, 1, Len(me.state)) = me.state
            /\ MovesAvailable(after.state, Len(me.state))]_vars

(* with two workers in the run, one has descended from the start         *)
(* position by select_child and has expanded below the chosen child       *)
MakeMoveOnlyAvailableWitness ==
    /\ root_state = <<>> /\ advances = 0 /\ call.threads = 2
    /\ \E me \in BagToSet(workers) :
         /\ me.pc = "backprop"
         /\ Len(me.node) = 2
         /\ Len(me.state) = 2
         /\ nodes[me.node].visit_count = 0

----------------------------------------------------------------------------
(* available_moves() and result() disagree on s: TenMoveGame still offers *)
(* moves after TOTAL_TURNS moves although result() is a payoff by then    *)
(* (it never has a state without moves and without a result)              *)
MovesButPayoff(s) ==
    AvailableMoves(s) # <<>> /\ Result(s, CurrentPlayer(s)) # NoResult

(* The worker with locals me takes a step of its backprop loop *)
BackpropStep(me) ==
    /\ BagIn(me, workers) /\ me.pc = "backprop"
    /\ CopiesIn(me, workers') < CopiesIn(me, workers)

(* C23 as stated - when available_moves() and result() disagree about the  *)
(* state the rollout stopped in, backpropagation credits the neutral      *)
(* value 0: the reward of the updated node does not change.               *)
DisagreementCreditsNothing ==
    [][\A me \in BagToSet(workers) :
         (BackpropStep(me) /\ MovesButPayoff(me.state)) =>
            nodes'[me.node].reward = nodes[me.node].reward]_vars

(* C23 - When the state reached by expansion has moves but result() is     *)
(* already a payoff, the rollout stops there at once, no worker panics,   *)
(* and backpropagation credits that payoff, not 0: every updated node     *)
(* gets visit_count + 1 and, if it has a player_just_moved, the result    *)
(* for that player (in TenMoveGame 1 when the last move equals the        *)
(* player's tag, else 0); nothing else changes.                           *)
DisagreementCreditsPayoff ==
    /\ [](\A me \in BagToSet(workers) :
            /\ me.pc # "panic"
            /\ me.pc = "backprop" =>
                 \/ Result(me.state, CurrentPlayer(me.state)) # NoResult
                 \/ AvailableMoves(me.state) = <<>>)
    /\ [][\A me \in BagToSet(workers), after \in BagToSet(workers') :
            LET reached == MakeMove(me.state, ExpandedMove(me, after))
            IN (ExpandedTo(me, after) /\ MovesButPayoff(reached)) =>
                  after.state = reached]_vars
    /\ [][\A me \in BagToSet(workers) :
            (BackpropStep(me) /\ MovesButPayoff(me.state)) =>
               LET n == me.node
                   tag == nodes[n].player_just_moved
                   payoff == IF tag # NoPlayer
                                /\ me.state[Len(me.state)] = tag
                             THEN 1 ELSE 0
               IN /\ nodes' = [nodes EXCEPT
                                 ![n].visit_count = @ + 1,
                                 ![n].reward = @ + payoff]]_vars

(* a rollout stopped after TOTAL_TURNS moves, where moves are still       *)
(* offered, and the node it ended on was credited the payoff 1            *)
DisagreementCreditsPayoffWitness ==
    \E me \in BagToSet(workers) :
        /\ me.pc = "backprop"
        /\ MovesButPayoff(me.state)
        /\ \E c \in Range(Children(me.node)) :
             /\ nodes[c].children = <<>>
             /\ nodes[c].visit_count = 1
             /\ nodes[c].reward = 1

----------------------------------------------------------------------------
(* The life of a handler whose every search is run_iterations(1, K): one  *)
(* worker thread at a time, any number of runs, advances in between       *)
SingleRun(n_iterations_per_thread) ==
    RunIterations(1, n_iterations_per_thread)

SingleNext ==
    \/ \E k \in 1..MaxBudget : SingleRun(k)
    \/ Join
    \/ \E me \in BagToSet(workers) : Select(me)
    \/ \E me \in BagToSet(workers) : SelectChild(me)
    \/ \E me \in BagToSet(workers) : Score(me)
    \/ \E me \in BagToSet(workers) : Bump(me)
    \/ \E me \in BagToSet(workers) : Expand(me)
    \/ \E me \in BagToSet(workers) : Backprop(me)
    \/ \E m \in 0..NumMoves : HandlerMakeMove(m)
    \/ HandlerBestMove

SingleSpec == Init /\ [][SingleNext]_vars

(* C24 - With a single worker thread in every run, every node other than  *)
(* the current root has availability_count >= visit_count in every        *)
(* reachable state, and the expansion step always creates the child it    *)
(* asks for: add_child never finds the move already expanded, which       *)
(* takes a second worker expanding the same move at the same time.        *)
SingleWorkerAvailability ==
    /\ [](BagCardinality(workers) <= 1)
    /\ [](\A n \in DOMAIN nodes \ {root_node} :
            nodes[n].visit_count <= nodes[n].availability_count)
    /\ [][\A me \in BagToSet(workers), after \in BagToSet(workers') :
            ExpandedTo(me, after) =>
               /\ after.node \notin DOMAIN nodes
               /\ nodes'[after.node].availability_count = 1
               /\ nodes'[after.node].visit_count = 0]_vars

(* the second single-threaded run of a handler that was advanced: a child *)
(* of the root has been selected again after its creation, so that both   *)
(* of its counters stand at 2                                             *)
SingleWorkerAvailabilityWitness ==
    /\ runs >= 2
    /\ advances >= 1
    /\ BagCardinality(workers) = 1
    /\ \E n \in DOMAIN nodes \ {root_node} :
         /\ nodes[n].visit_count = 2
         /\ nodes[n].availability_count = 2

----------------------------------------------------------------------------
(* n was made by add_child during a run: every node but the one that      *)
(* IsmctsHandler::new made                                                *)
CreatedByAddChild(n) == n # RootId

(* visits of n that did not go on to one of its present children *)
OwnVisits(n) == nodes[n].visit_count - SumVisits(Children(n))

(* C25 - Visit hierarchy: whenever no worker is running, every node of the *)
(* tree under the current root has visit_count >= the sum of its          *)
(* children's visit counts, and a node created by add_child has           *)
(* visit_count >= 1 + that sum.                                           *)
VisitHierarchy ==
    phase # "running" =>
        \A n \in DOMAIN nodes :
            /\ n \in Reachable(nodes, root_node)
            /\ OwnVisits(n) >= 0
            /\ CreatedByAddChild(n) => OwnVisits(n) >= 1

(* after a run and an advance the root is a former child; one node was    *)
(* created by two workers at once and has been descended through since,   *)
(* so it has two visits more than its children together                   *)
VisitHierarchyWitness ==
    /\ phase = "idle"
    /\ advances >= 1
    /\ CreatedByAddChild(root_node)
    /\ \E n \in DOMAIN nodes :
         /\ Children(n) # <<>>
         /\ OwnVisits(n) = 2


====
